---- MODULE Spec2Model ----
(***************************************************************************)
(* The two files of the repository as a state machine.                     *)
(*                                                                         *)
(*   README.txt          the package manifest of a prebuilt toolchain and  *)
(*                       the shell commands that reproduce it              *)
(*   plugin-version.h    the GCC plugin version constants and the          *)
(*                       gcc_version record                                *)
(*                                                                         *)
(* Spec runs the README's commands, one per step, in a shell started in    *)
(* the directory that holds the two files.  SpecVersion expands the        *)
(* GCCPLUGIN_VERSION macro over version components drawn from bounded sets. *)
(***************************************************************************)
EXTENDS Integers, Sequences, FiniteSets, TLC

VARIABLES
  files,       \* path (relative to the start directory) -> content
  buildroot,   \* the directory ./buildroot: "absent", "default" or the tag checked out
  cwd,         \* the shell's working directory: "." or "buildroot"
  pc,          \* index in Steps of the next command
  history,     \* the commands the shell has run, in order
  status,      \* exit status of the last command ($?)
  major,       \* the macro environment GCCPLUGIN_VERSION is expanded in
  minor,
  patchlevel,
  version      \* the expansion of GCCPLUGIN_VERSION, -1 before it is expanded

vars == <<files, buildroot, cwd, pc, history, status, major, minor, patchlevel, version>>

procVars == <<files, buildroot, cwd, pc, history, status>>

macroVars == <<major, minor, patchlevel, version>>

----------------------------------------------------------------------------
(* Strings *)

\* the positions in s of the character sep
SepPositions(s, sep) == {i \in 1..Len(s) : SubSeq(s, i, i) = sep}

\* s cut at every occurrence of the character sep
Split(s, sep) ==
  LET P == SepPositions(s, sep)
      n == Cardinality(P)
      pos(k) == CHOOSE i \in P : Cardinality({j \in P : j < i}) = k - 1
      first(k) == IF k = 1 THEN 1 ELSE pos(k - 1) + 1
      last(k) == IF k = n + 1 THEN Len(s) ELSE pos(k) - 1
  IN  [k \in 1..(n + 1) |-> IF first(k) > last(k) THEN "" ELSE SubSeq(s, first(k), last(k))]

\* the whitespace-separated words of s
Words(s) == SelectSeq(Split(s, " "), LAMBDA w : w # "")

RECURSIVE Join(_, _)
Join(ws, sep) ==
  IF ws = <<>> THEN ""
  ELSE IF Len(ws) = 1 THEN ws[1]
  ELSE ws[1] \o sep \o Join(Tail(ws), sep)

Last(seq) == seq[Len(seq)]

HasPrefix(s, p) == Len(p) <= Len(s) /\ SubSeq(s, 1, Len(p)) = p

HasSuffix(s, p) == Len(p) <= Len(s) /\ SubSeq(s, Len(s) - Len(p) + 1, Len(s)) = p

Digit(d) == SubSeq("0123456789", d + 1, d + 1)

RECURSIVE Dec(_)
Dec(n) == IF n < 10 THEN Digit(n) ELSE Dec(n \div 10) \o Digit(n % 10)

\* "MAJOR.MINOR.PATCHLEVEL"
Dotted(a, b, c) == Dec(a) \o "." \o Dec(b) \o "." \o Dec(c)

----------------------------------------------------------------------------
(* plugin-version.h *)

HeaderPath == "lib/gcc/aarch64-linux-gnu/12.0.0/plugin/include/plugin-version.h"

GCCPLUGIN_VERSION_MAJOR == 12

GCCPLUGIN_VERSION_MINOR == 0

GCCPLUGIN_VERSION_PATCHLEVEL == 0

\* the patch level folded into the combined number
GCCPLUGIN_VERSION_WithPatchlevel(ma, mi, pl) == ma * 1000 + mi * 10 + pl

\* the macro's replacement list, over the macro environment it is expanded in
GCCPLUGIN_VERSION(ma, mi, pl) == ma * 1000 + mi

\* a base version whose patch level differs from GCCPLUGIN_VERSION_PATCHLEVEL
basever_Patched == "12.0.1"

\* the base version of the compiler the README lists
basever_Manifest == "9.3.0"

basever == "12.0.0"

datestamp == "20211007"

devphase == "experimental"

revision == "[master revision 6496ae5c9651206c9de43f63018a549a2ef2244e]"

\* the members of struct plugin_gcc_version, in declaration order
plugin_gcc_version ==
  <<"basever", "datestamp", "devphase", "revision", "configuration_arguments">>

\* the initializer list with two of its entries exchanged
GccVersionInitializer_Swapped ==
  <<"basever", "devphase", "datestamp", "revision", "configuration_arguments">>

\* the initializer list of gcc_version: the objects it names, in order
GccVersionInitializer ==
  <<"basever", "datestamp", "devphase", "revision", "configuration_arguments">>

\* aggregate initialization: the i-th initializer goes to the i-th member, and
\* members past the end of the list are null
gcc_version ==
  [i \in DOMAIN plugin_gcc_version |->
     [member |-> plugin_gcc_version[i],
      ref    |-> IF i <= Len(GccVersionInitializer)
                 THEN GccVersionInitializer[i] ELSE "NULL"]]

\* what the header defines
Header ==
  [major       |-> GCCPLUGIN_VERSION_MAJOR,
   minor       |-> GCCPLUGIN_VERSION_MINOR,
   patchlevel  |-> GCCPLUGIN_VERSION_PATCHLEVEL,
   basever     |-> basever,
   datestamp   |-> datestamp,
   devphase    |-> devphase,
   revision    |-> revision,
   gcc_version |-> gcc_version]

----------------------------------------------------------------------------
(* README.txt *)

ReadmePath == "README.txt"

\* the identifier of the bleeding-edge variant of the same release
Title_BleedingEdge == "openrisc--musl--bleeding-edge-2020.08-1"

Title == "openrisc--musl--stable-2020.08-1"

ManifestLines ==
  << "buildroot    2020.08-14-ge5a2a90  GPL-2.0+",
     "gcc-final    9.3.0                unknown",
     "binutils     2.33.1               GPL-3.0+, libiberty LGPL-2.1+",
     "gmp          6.1.2                LGPL-3.0+ or GPL-2.0+",
     "m4           1.4.18               GPL-3.0+",
     "mpc          1.1.0                LGPL-3.0+",
     "mpfr         4.0.2                LGPL-3.0+",
     "gcc-initial  9.3.0                unknown",
     "patchelf     0.9                  GPL-3.0+",
     "musl           1.2.0    MIT",
     "linux-headers  4.9.234  GPL-2.0" >>

\* s from position a to position b, cut to what s holds
Cut(s, a, b) ==
  LET e == IF b > Len(s) THEN Len(s) ELSE b
  IN  IF a > e THEN "" ELSE SubSeq(s, a, e)

\* a row read by the column offsets of the heading line
ParseRow_ByColumn(line) ==
  [package |-> Join(Words(Cut(line, 1, 13)), " "),
   version |-> Join(Words(Cut(line, 14, 34)), " "),
   license |-> Join(Words(Cut(line, 35, Len(line))), " ")]

\* a row of the table under the heading PACKAGE VERSION LICENSE: the first two
\* words are the package and its version, the rest of the line is the license
ParseRow(line) ==
  LET w == Words(line)
  IN  [package |-> IF Len(w) >= 1 THEN w[1] ELSE "",
       version |-> IF Len(w) >= 2 THEN w[2] ELSE "",
       license |-> IF Len(w) >= 3 THEN Join(SubSeq(w, 3, Len(w)), " ") ELSE ""]

Manifest(lines) == [i \in DOMAIN lines |-> ParseRow(lines[i])]

\* the steps with the build started before the configuration is completed
Steps_MakeFirst ==
  << "git clone https://github.com/bootlin/buildroot-toolchains.git buildroot",
     "cd buildroot",
     "git checkout toolchains.bootlin.com-2020.08-1",
     "make",
     "curl http://toolchains.bootlin.com/downloads/releases/toolchains/openrisc/build_fragments/openrisc--musl--stable-2020.08-1.defconfig > .config",
     "make olddefconfig" >>

\* the reproduction steps, one command per line
Steps ==
  << "git clone https://github.com/bootlin/buildroot-toolchains.git buildroot",
     "cd buildroot",
     "git checkout toolchains.bootlin.com-2020.08-1",
     "curl http://toolchains.bootlin.com/downloads/releases/toolchains/openrisc/build_fragments/openrisc--musl--stable-2020.08-1.defconfig > .config",
     "make olddefconfig",
     "make" >>

Readme == [title |-> Title, manifest |-> Manifest(ManifestLines), steps |-> Steps]

----------------------------------------------------------------------------
(* The shell that runs the reproduction steps *)

\* a file name as the shell resolves it in directory dir
Resolve(dir, name) == IF dir = "." THEN name ELSE dir \o "/" \o name

Exists(f, p) == p \in DOMAIN f

\* the content of a file of text
Data(text) == [text |-> text]

\* f with content c written to path p (created when missing)
Write(f, p, c) == [q \in DOMAIN f \cup {p} |-> IF q = p THEN c ELSE f[q]]

\* the command about to run, as words
Cmd == IF pc \in DOMAIN Steps THEN Words(Steps[pc]) ELSE <<>>

\* the command ends with exit status rc and the shell moves to the next line
Finish(rc) ==
  /\ pc' = pc + 1
  /\ history' = Append(history, Steps[pc])
  /\ status' = rc

\* a redirection that lands on the README
RedirectTarget_Readme(w) == ReadmePath

\* the file name after the redirection operator
RedirectTarget(w) == w[4]

\* what the fetch leaves in the redirection target: the fragment (named by the
\* last component of the URL), a truncated body, or nothing
Bodies(url) == {Last(Split(url, "/")), "partial", ""}

\* the files the two repository files sit beside, with the files named in S
\* left over from an earlier run
StartFiles(S) ==
  [p \in {ReadmePath, HeaderPath} \cup S |->
     IF p = ReadmePath THEN Readme
     ELSE IF p = HeaderPath THEN Header
     ELSE Data("stale")]

Init ==
  /\ buildroot \in {"absent", "default", "detached"}
  /\ \E S \in SUBSET {".config", "buildroot/.config"} :
       /\ ("buildroot/.config" \in S) => (buildroot # "absent")
       /\ files = StartFiles(S)
  /\ cwd = "."
  /\ pc = 1
  /\ history = <<>>
  /\ status = 0
  /\ major = GCCPLUGIN_VERSION_MAJOR
  /\ minor = GCCPLUGIN_VERSION_MINOR
  /\ patchlevel = GCCPLUGIN_VERSION_PATCHLEVEL
  /\ version = GCCPLUGIN_VERSION(major, minor, patchlevel)

\* git clone <url> <dir>: creates <dir> with the default branch checked out;
\* fails when <dir> is there already or the transfer fails
GitClone ==
  /\ Len(Cmd) = 4 /\ Cmd[1] = "git" /\ Cmd[2] = "clone"
  /\ \E ok \in BOOLEAN :
       IF ok /\ cwd = "." /\ Cmd[4] = "buildroot" /\ buildroot = "absent"
       THEN buildroot' = "default" /\ Finish(0)
       ELSE buildroot' = buildroot /\ Finish(1)
  /\ UNCHANGED <<files, cwd, macroVars>>

\* cd <dir>: fails, and leaves the shell where it is, when <dir> is missing
Cd ==
  /\ Len(Cmd) = 2 /\ Cmd[1] = "cd"
  /\ IF cwd = "." /\ Cmd[2] = "buildroot" /\ buildroot # "absent"
     THEN cwd' = Cmd[2] /\ Finish(0)
     ELSE cwd' = cwd /\ Finish(1)
  /\ UNCHANGED <<files, buildroot, macroVars>>

\* git checkout <tag>: only the clone has the tag
GitCheckout ==
  /\ Len(Cmd) = 3 /\ Cmd[1] = "git" /\ Cmd[2] = "checkout"
  /\ \E ok \in BOOLEAN :
       IF ok /\ cwd = "buildroot"
       THEN buildroot' = Cmd[3] /\ Finish(0)
       ELSE buildroot' = buildroot /\ Finish(1)
  /\ UNCHANGED <<files, cwd, macroVars>>

\* curl <url> > <file>: the shell creates or truncates <file> before curl runs
Curl ==
  /\ Len(Cmd) = 4 /\ Cmd[1] = "curl" /\ Cmd[3] = ">"
  /\ \E body \in Bodies(Cmd[2]) :
       /\ files' = Write(files, Resolve(cwd, RedirectTarget(Cmd)), Data(body))
       /\ Finish(IF body \in {"partial", ""} THEN 1 ELSE 0)
  /\ UNCHANGED <<buildroot, cwd, macroVars>>

\* the configuration make olddefconfig writes from the one it reads
Olddefconfig(c) ==
  IF c \in {"", "partial", "stale", "defaults"} THEN "defaults" ELSE "full " \o c

\* make olddefconfig: the makefile is the clone's; it rewrites .config in place
MakeOlddefconfig ==
  /\ Cmd = <<"make", "olddefconfig">>
  /\ \E ok \in BOOLEAN :
       IF ok /\ cwd = "buildroot"
       THEN LET p == Resolve(cwd, ".config")
            IN  /\ files' = Write(files, p,
                                  Data(Olddefconfig(IF Exists(files, p) THEN files[p].text ELSE "")))
                /\ Finish(0)
       ELSE files' = files /\ Finish(2)
  /\ UNCHANGED <<buildroot, cwd, macroVars>>

\* make: builds the toolchain under the clone's output directory, from .config
Make ==
  /\ Cmd = <<"make">>
  /\ \E ok \in BOOLEAN :
       IF ok /\ cwd = "buildroot" /\ Exists(files, Resolve(cwd, ".config"))
       THEN /\ files' = Write(files, Resolve(cwd, "output"), Data("toolchain"))
            /\ Finish(0)
       ELSE files' = files /\ Finish(2)
  /\ UNCHANGED <<buildroot, cwd, macroVars>>

Next ==
  \/ GitClone
  \/ Cd
  \/ GitCheckout
  \/ Curl
  \/ MakeOlddefconfig
  \/ Make

Spec == Init /\ [][Next]_vars

----------------------------------------------------------------------------
(* Expansion of GCCPLUGIN_VERSION over a bounded range of macro values *)

MaxMajor == 13

MaxMinor == 2

MaxPatchlevel == 2

InitVersion ==
  /\ buildroot = "absent"
  /\ files = StartFiles({})
  /\ cwd = "."
  /\ pc = 1
  /\ history = <<>>
  /\ status = 0
  /\ major \in 0..MaxMajor
  /\ minor \in 0..MaxMinor
  /\ patchlevel \in 0..MaxPatchlevel
  /\ version = -1

\* the preprocessor replaces a use of GCCPLUGIN_VERSION
ExpandVersion ==
  /\ version = -1
  /\ version' = GCCPLUGIN_VERSION(major, minor, patchlevel)
  /\ UNCHANGED <<procVars, major, minor, patchlevel>>

NextVersion == ExpandVersion

SpecVersion == InitVersion /\ [][NextVersion]_vars

----------------------------------------------------------------------------
(* Properties *)

HeaderRecord == files[HeaderPath]

ReadmeRecord == files[ReadmePath]

\* C1: the expansion of GCCPLUGIN_VERSION is MAJOR*1000 + MINOR; for major 12
\* and minor 0 it is 12000; the patch level does not enter it (every patch
\* level gives the same number).
C1_CombinedVersion ==
  version # -1 =>
    /\ version = major * 1000 + minor
    /\ (major = 12 /\ minor = 0) => version = 12000
    /\ \A p \in 0..MaxPatchlevel : GCCPLUGIN_VERSION(major, minor, p) = version

\* GCCPLUGIN_VERSION expanded for 12.0 with a patch level other than 0
C1_Witness ==
  major = 12 /\ minor = 0 /\ patchlevel > 0 /\ version = 12000

\* C2: gcc_version has exactly five members, in the order basever, datestamp,
\* devphase, revision, configuration_arguments, and each member refers to the
\* object of its own name and to no other.
C2_RecordMembers ==
  LET g == HeaderRecord.gcc_version
  IN  /\ Len(g) = 5
      /\ [i \in DOMAIN g |-> g[i].member] =
           <<"basever", "datestamp", "devphase", "revision", "configuration_arguments">>
      /\ \A i \in DOMAIN g : g[i].ref = g[i].member
      /\ \A i, j \in DOMAIN g : g[i].ref = g[j].ref => i = j

\* the record as the header leaves it, read after the whole procedure has run
C2_Witness ==
  /\ pc = Len(Steps) + 1
  /\ HeaderRecord.gcc_version[1].ref = "basever"
  /\ HeaderRecord.gcc_version[5].ref = "configuration_arguments"

\* C3: no step changes a row of the manifest or a field of the version record
\* (nor anything else of the two files that hold them).
C3_RecordsUnchanged ==
  [][/\ ReadmePath \in DOMAIN files' /\ HeaderPath \in DOMAIN files'
     /\ files'[ReadmePath] = files[ReadmePath]
     /\ files'[HeaderPath] = files[HeaderPath]]_vars

\* every step has run, the build included, and the two files are there
C3_Witness ==
  /\ pc = Len(Steps) + 1
  /\ Exists(files, "buildroot/output")
  /\ Len(ReadmeRecord.manifest) = 11
  /\ HeaderRecord.gcc_version[1].ref = "basever"

\* the commands of the procedure, in the order the claim gives them
C4_Order ==
  <<"git clone ", "cd ", "git checkout ", "curl ", "make olddefconfig", "make">>

\* C4: the procedure is one linear sequence: clone, enter, check out the tag,
\* fetch into .config, make olddefconfig, make.  The commands run so far are a
\* prefix of it, so the checkout precedes the fetch and make olddefconfig
\* precedes make; once the fetch has run, .config is there, so neither make
\* command is reached without it.
C4_LinearProcedure ==
  /\ Len(history) <= 6
  /\ pc = Len(history) + 1
  /\ \A i \in DOMAIN history : HasPrefix(history[i], C4_Order[i])
  /\ Len(history) = 6 => history[6] = "make"
  /\ Len(history) >= 4 => Exists(files, Resolve(cwd, ".config"))

\* a run in which every command succeeded and the toolchain was built
C4_Witness ==
  /\ Len(history) = 6
  /\ status = 0
  /\ buildroot = "toolchains.bootlin.com-2020.08-1"
  /\ Exists(files, "buildroot/output")

\* the directory components of the header's path
HeaderDirs == Split(HeaderPath, "/")

\* the rows of the manifest for the two GCC stages
GccRows(m) == {i \in DOMAIN m : m[i].package \in {"gcc-final", "gcc-initial"}}

C6_BaseverDotted ==
  HeaderRecord.basever =
    Dotted(HeaderRecord.major, HeaderRecord.minor, HeaderRecord.patchlevel)

\* the header with major 12 and the base version string it records
C6_Witness ==
  /\ HeaderRecord.major = 12
  /\ HeaderRecord.minor = 0
  /\ HeaderRecord.patchlevel = 0
  /\ Len(HeaderRecord.basever) = 6

\* C7: every row of the manifest has a non-empty package, version and license;
\* the package names are pairwise distinct; gcc-initial and gcc-final are both
\* listed and carry the same version.
C7_ManifestWellFormed ==
  LET m == ReadmeRecord.manifest
  IN  /\ \A i \in DOMAIN m :
           m[i].package # "" /\ m[i].version # "" /\ m[i].license # ""
      /\ \A i, j \in DOMAIN m : m[i].package = m[j].package => i = j
      /\ \E i, j \in DOMAIN m :
           /\ m[i].package = "gcc-initial"
           /\ m[j].package = "gcc-final"
           /\ m[i].version = m[j].version

\* the eleven rows, with a license of several words and a row out of column
C7_Witness ==
  LET m == ReadmeRecord.manifest
  IN  /\ Len(m) = 11
      /\ m[3] = [package |-> "binutils", version |-> "2.33.1",
                 license |-> "GPL-3.0+, libiberty LGPL-2.1+"]
      /\ m[10] = [package |-> "musl", version |-> "1.2.0", license |-> "MIT"]

\* the release suffix of a toolchain identifier: its last two dash-separated parts
Release(id) ==
  LET parts == Split(id, "-")
  IN  Join(SubSeq(parts, Len(parts) - 1, Len(parts)), "-")

\* a .config as the fetch left it: a fragment's name, not yet expanded
IsFragment(c) == HasSuffix(c, ".defconfig") /\ ~HasPrefix(c, "full ")

\* C8: the fragment fetched is named after the identifier in the README title,
\* the tag checked out ends with the title's release suffix, and the buildroot
\* version of the manifest is of the same release.
C8_ReleaseIdentifiers ==
  LET t == ReadmeRecord.title
      m == ReadmeRecord.manifest
  IN  /\ \A p \in {".config", "buildroot/.config"} :
           (Exists(files, p) /\ IsFragment(files[p].text)) =>
             files[p].text = t \o ".defconfig"
      /\ buildroot \notin {"absent", "default", "detached"} =>
           HasSuffix(buildroot, "-" \o Release(t))
      /\ \E i \in DOMAIN m :
           /\ m[i].package = "buildroot"
           /\ Split(m[i].version, "-")[1] = Split(Release(t), "-")[1]

\* the tag is checked out and the fragment has been fetched into the clone
C8_Witness ==
  /\ buildroot = "toolchains.bootlin.com-2020.08-1"
  /\ Exists(files, "buildroot/.config")
  /\ files["buildroot/.config"].text = "openrisc--musl--stable-2020.08-1.defconfig"

====
